---- MODULE Spec2Model ----
(***************************************************************************)
(* Fitness API: the goal routes (routes/goals/goals.js), the nutrition     *)
(* entry routes (routes/nutrition/nutrition.js and the monolithic          *)
(* routes/routes.js) and the mongoose schemas they persist through.        *)
(*                                                                         *)
(* A stored document holds exactly the paths its schema declares (strict   *)
(* mode): a path the schema does not declare reads as undefined on a       *)
(* document and an assignment to it is not persisted.                      *)
(***************************************************************************)
EXTENDS Integers, Sequences, FiniteSets, TLC

VARIABLES goals, notifications, foods, entries, last, inflight, users, posts, activity

vars ==
  <<goals, notifications, foods, entries, last, inflight, users, posts, activity>>

\* the User, ForumPost and ActivityLog collections
social == <<users, posts, activity>>

-----------------------------------------------------------------------------
(* Bounds of the model *)

MaxValue == 2
MaxMilestones == 1
\* progress updates in flight at once
MaxInflight == 2

Users == {"u1", "u2"}
\* goal ids: a request names one whether or not a goal is stored under it
GoalIds == {"g1"}
\* numeric request values; -1 stands for any negative number
Values == -1 .. MaxValue
\* request dates: none given, or an ISO date
ReqDates == {"none", "d1"}

-----------------------------------------------------------------------------
(* Schemas *)

GoalSchemaPaths ==
  {"user", "title", "description", "type", "targetValue", "currentValue",
   "unit", "targetDate", "priority", "status", "milestones"}

MilestoneSchemaPaths == {"title", "value", "achieved", "achievedDate"}

GoalStatusEnum == {"active", "paused", "completed", "cancelled"}

NotificationTypeEnum ==
  {"workout-reminder", "meal-reminder", "goal-achievement", "milestone-reached",
   "new-follower", "workout-shared", "system-update", "other"}

RelatedEntityTypeEnum == {"workout", "goal", "user", "nutrition"}

\* goalSchema validators run by save(): min 0 on both values, the status enum,
\* and the required type
GoalValid(doc, hasType) ==
  /\ hasType
  /\ doc.targetValue >= 0
  /\ doc.currentValue >= 0
  /\ doc.status \in GoalStatusEnum

\* notificationSchema validators run by save()
NotificationValid(n) ==
  /\ n.type \in NotificationTypeEnum
  /\ n.relatedType \in RelatedEntityTypeEnum

-----------------------------------------------------------------------------
(* JavaScript numbers of the percentage computation: a finite number n/d,   *)
(* NaN or Infinity                                                          *)

Num(n, d) == [k |-> "num", n |-> n, d |-> d]
NaN == [k |-> "nan", n |-> 0, d |-> 1]
Infinity == [k |-> "inf", n |-> 0, d |-> 1]

\* a / b for a >= 0, b >= 0
JsDiv(a, b) ==
  IF b = 0 THEN (IF a = 0 THEN NaN ELSE Infinity) ELSE Num(a, b)

JsTimes(x, c) == IF x.k = "num" THEN Num(x.n * c, x.d) ELSE x

\* Math.min(x, c): NaN if x is NaN
JsMin(x, c) ==
  IF x.k = "nan" THEN NaN
  ELSE IF x.k = "inf" THEN Num(c, 1)
  ELSE IF x.n <= c * x.d THEN x ELSE Num(c, 1)

calculateGoalProgress_nocap(goal) ==
  IF goal.targetValue = 0 THEN Num(0, 1)
  ELSE JsTimes(JsDiv(goal.currentValue, goal.targetValue), 100)

calculateGoalProgress_nozero(goal) ==
  JsMin(JsTimes(JsDiv(goal.currentValue, goal.targetValue), 100), 100)

calculateGoalProgress(goal) ==
  IF goal.targetValue = 0 THEN Num(0, 1)
  ELSE JsMin(JsTimes(JsDiv(goal.currentValue, goal.targetValue), 100), 100)

-----------------------------------------------------------------------------
(* Documents and responses *)

\* a milestone subdocument: the schema's value, achieved and achievedDate
\* (the title is a label and is left out); request bodies place milestones at
\* the lowest positive value and at the highest
MilestoneInputs ==
  {[value |-> v, achieved |-> a, achievedDate |-> IF a THEN "d1" ELSE "none"] :
     v \in {1, MaxValue}, a \in BOOLEAN}

RECURSIVE SeqsUpTo(_, _)
SeqsUpTo(S, n) ==
  IF n = 0 THEN {<<>>}
  ELSE LET shorter == SeqsUpTo(S, n - 1)
       IN shorter \cup {Append(q, x) : q \in {r \in shorter : Len(r) = n - 1}, x \in S}

MilestoneLists == SeqsUpTo(MilestoneInputs, MaxMilestones)

\* the progress history a stored goal holds: none unless the schema declares it
PersistedHistory(doc) ==
  IF "progressHistory" \in GoalSchemaPaths THEN doc.progressHistory ELSE <<>>

Response(code, error) ==
  [code |-> code, error |-> error, progressPercentage |-> <<>>,
   completedMilestones |-> {}, isGoalCompleted |-> FALSE]

\* a handler's outcome: the response and the store it leaves
Out(res, g, n) == [res |-> res, goals |-> g, notifications |-> n]

Unchanged(res) == Out(res, goals, notifications)

-----------------------------------------------------------------------------
(* Goal routes: helpers *)

FindOneGoal_anyOwner(id, caller) == id \in DOMAIN goals

\* Goal.findOne({ _id: req.params.id, user: req.user._id })
FindOneGoal(id, caller) == id \in DOMAIN goals /\ goals[id].user = caller

IsActive_notCompleted(goal) == goal.status # "completed"

\* goal.status !== 'active' rejects the update
IsActive(goal) == goal.status = "active"

\* an assignment to a path the milestone schema does not declare is not persisted
MilestoneAssign(m, path, v) ==
  IF path \in MilestoneSchemaPaths THEN [m EXCEPT ![path] = v] ELSE m

\* !milestone.isCompleted: undefined unless the schema declares the path
NotCompleted(m) ==
  IF "isCompleted" \in MilestoneSchemaPaths THEN ~m.isCompleted ELSE TRUE

\* previousValue < milestone.targetValue && newValue >= milestone.targetValue:
\* a comparison with undefined is false
Crosses(m, previousValue, newValue) ==
  /\ "targetValue" \in MilestoneSchemaPaths
  /\ previousValue < m.targetValue
  /\ newValue >= m.targetValue

\* the milestones pushed to completedMilestones, and the milestones as persisted
checkMilestoneCompletion(milestones, previousValue, newValue) ==
  LET hit == {i \in DOMAIN milestones :
                NotCompleted(milestones[i]) /\ Crosses(milestones[i], previousValue, newValue)}
  IN [completed |-> hit,
      milestones |->
        [i \in DOMAIN milestones |->
           IF i \in hit
           THEN MilestoneAssign(MilestoneAssign(milestones[i], "isCompleted", TRUE),
                                "completedAt", "now")
           ELSE milestones[i]]]

checkGoalCompletion(goal) == goal.currentValue >= goal.targetValue

\* the notification handleGoalCompletion builds
GoalCompletionNotification(goal, id) ==
  [user |-> goal.user, type |-> "achievement", relatedType |-> "Goal", goal |-> id]

\* the notification createMilestoneNotification builds
MilestoneNotification(goal, id) ==
  [user |-> goal.user, type |-> "milestone", relatedType |-> "Goal", goal |-> id]

RECURSIVE Repeat(_, _)
Repeat(x, n) == IF n = 0 THEN <<>> ELSE Append(Repeat(x, n - 1), x)

-----------------------------------------------------------------------------
(* Goal routes: handlers.  Each takes the authenticated caller and the     *)
(* request, and gives the response and the store the request leaves.       *)

\* GET /: the caller's goals, each with its progress percentage (by goal id)
getGoals(caller) ==
  Unchanged([Response(200, "") EXCEPT
               !.progressPercentage =
                 [id \in {i \in DOMAIN goals : goals[i].user = caller} |->
                    calculateGoalProgress(goals[id])]])

\* GET /:id: getRecentProgressForGoal sorts goal.progressHistory, which is
\* undefined on a document whose schema does not declare it
getGoal(caller, id) ==
  IF ~FindOneGoal(id, caller) THEN Unchanged(Response(404, "Goal not found"))
  ELSE IF "progressHistory" \notin GoalSchemaPaths
  THEN Unchanged(Response(500, "Failed to fetch goal"))
  ELSE Unchanged([Response(200, "") EXCEPT
                    !.progressPercentage = id :> calculateGoalProgress(goals[id])])

\* POST /: body.valid says the route's validators pass; every milestone of the
\* body needs title, targetValue and targetDate; the document is built from
\* the body with user and currentValue overridden, and saved under a new id
postGoal(caller, id, body) ==
  IF ~body.valid THEN Unchanged(Response(400, "Validation failed"))
  ELSE IF ~body.milestoneFields
  THEN Unchanged(Response(400, "Each milestone must have title, targetValue, and targetDate"))
  ELSE LET goal == [user |-> caller,
                    status |-> IF body.status = "none" THEN "active" ELSE body.status,
                    targetValue |-> body.targetValue,
                    currentValue |-> body.currentValue,
                    milestones |-> body.milestones]
       IN IF ~GoalValid(goal, body.hasType)
          THEN Unchanged(Response(500, "Failed to create goal"))
          ELSE Out(Response(201, ""), id :> goal @@ goals, notifications)

\* Object.keys(req.body).forEach(key => goal[key] = req.body[key])
AssignBody(goal, body) ==
  CASE body.key = "status" -> [goal EXCEPT !.status = body.status]
    [] body.key = "currentValue" -> [goal EXCEPT !.currentValue = body.num]
    [] body.key = "targetValue" -> [goal EXCEPT !.targetValue = body.num]
    [] body.key = "milestones" -> [goal EXCEPT !.milestones = body.milestones]
    [] body.key = "user" -> [goal EXCEPT !.user = body.user]
    [] OTHER -> goal

\* PUT /:id: body.valid says the route's validators pass; the completion check reads goal.status after the body's status
\* has been assigned to it
putGoal(caller, id, body) ==
  IF ~body.valid THEN Unchanged(Response(400, "Validation failed"))
  ELSE IF ~FindOneGoal(id, caller) THEN Unchanged(Response(404, "Goal not found"))
  ELSE LET goal == AssignBody(goals[id], body)
           note == GoalCompletionNotification(goal, id)
       IN IF ~GoalValid(goal, TRUE)
          THEN Unchanged(Response(500, "Failed to update goal"))
          ELSE IF body.key = "status" /\ body.status = "completed" /\ goal.status # "completed"
          THEN IF NotificationValid(note)
               THEN Out(Response(200, ""), [goals EXCEPT ![id] = goal],
                        Append(notifications, note))
               ELSE Out(Response(500, "Failed to update goal"),
                        [goals EXCEPT ![id] = goal], notifications)
          ELSE Out(Response(200, ""), [goals EXCEPT ![id] = goal], notifications)

\* DELETE /:id
deleteGoal(caller, id) ==
  IF ~FindOneGoal(id, caller) THEN Unchanged(Response(404, "Goal not found"))
  ELSE Out(Response(200, "Goal deleted successfully"),
           [i \in DOMAIN goals \ {id} |-> goals[i]], notifications)

\* POST /:id/progress from the milestone check on (goals.js 247-273): goal is
\* the document with currentValue already set
progressFromMilestoneCheck(id, goal, previousValue, value) ==
  LET cm == checkMilestoneCompletion(goal.milestones, previousValue, value)
      checked == [goal EXCEPT !.milestones = cm.milestones]
      isCompleted == checkGoalCompletion(checked)
      completes == isCompleted /\ checked.status = "active"
      \* completedAt is no path of the schema: only the status is persisted
      final == IF completes THEN [checked EXCEPT !.status = "completed"] ELSE checked
      goalNote == GoalCompletionNotification(final, id)
      milestoneNote == MilestoneNotification(final, id)
      afterCompletion == IF completes THEN Append(notifications, goalNote)
                         ELSE notifications
      failed == Response(500, "Failed to update progress")
  IN IF completes /\ ~NotificationValid(goalNote) THEN Unchanged(failed)
     ELSE IF ~GoalValid(final, TRUE) THEN Out(failed, goals, afterCompletion)
     ELSE IF cm.completed # {} /\ ~NotificationValid(milestoneNote)
     THEN Out(failed, [goals EXCEPT ![id] = final], afterCompletion)
     ELSE Out([Response(200, "Progress updated successfully") EXCEPT
                 !.progressPercentage = id :> calculateGoalProgress(final),
                 !.completedMilestones = cm.completed,
                 !.isGoalCompleted = isCompleted],
              [goals EXCEPT ![id] = final],
              afterCompletion \o Repeat(milestoneNote, Cardinality(cm.completed)))

postProgress_recompute(caller, id, numeric, value, date) ==
  IF ~numeric THEN Unchanged(Response(400, "Validation failed"))
  ELSE IF ~FindOneGoal(id, caller) THEN Unchanged(Response(404, "Goal not found"))
  ELSE IF ~IsActive(goals[id])
  THEN Unchanged(Response(400, "Cannot update progress on inactive goal"))
  ELSE Out(Response(200, "Progress updated successfully"),
           [goals EXCEPT ![id].milestones =
              [i \in DOMAIN goals[id].milestones |->
                 [goals[id].milestones[i] EXCEPT
                    !.achieved = (value >= goals[id].milestones[i].value),
                    !.achievedDate = IF value >= goals[id].milestones[i].value
                                     THEN "now" ELSE "none"]]],
           notifications)

\* POST /:id/progress: numeric says body('value').isNumeric() passes; the
\* push on goal.progressHistory throws when the schema does not declare the
\* path, and the catch answers 500 before anything is saved
postProgress(caller, id, numeric, value, date) ==
  IF ~numeric THEN Unchanged(Response(400, "Validation failed"))
  ELSE IF ~FindOneGoal(id, caller) THEN Unchanged(Response(404, "Goal not found"))
  ELSE IF ~IsActive(goals[id])
  THEN Unchanged(Response(400, "Cannot update progress on inactive goal"))
  ELSE LET previousValue == goals[id].currentValue
           goal == [goals[id] EXCEPT !.currentValue = value]
       IN IF "progressHistory" \notin GoalSchemaPaths
          THEN Unchanged(Response(500, "Failed to update progress"))
          ELSE progressFromMilestoneCheck(id, goal, previousValue, value)

\* POST /:id/milestones/:milestoneId/complete: isCompleted and completedAt are
\* no paths of the milestone schema, so the guard never rejects and the save
\* persists no change; the milestone notification is then saved
completeMilestone(caller, id, mid) ==
  IF ~FindOneGoal(id, caller) THEN Unchanged(Response(404, "Goal not found"))
  ELSE IF mid \notin DOMAIN goals[id].milestones
  THEN Unchanged(Response(404, "Milestone not found"))
  ELSE IF ~NotCompleted(goals[id].milestones[mid])
  THEN Unchanged(Response(400, "Milestone already completed"))
  ELSE LET m == MilestoneAssign(MilestoneAssign(goals[id].milestones[mid],
                                                "isCompleted", TRUE),
                                "completedAt", "now")
           goal == [goals[id] EXCEPT !.milestones[mid] = m]
           note == MilestoneNotification(goal, id)
       IN IF ~GoalValid(goal, TRUE)
          THEN Unchanged(Response(500, "Failed to complete milestone"))
          ELSE IF ~NotificationValid(note)
          THEN Out(Response(500, "Failed to complete milestone"),
                   [goals EXCEPT ![id] = goal], notifications)
          ELSE Out(Response(200, "Milestone completed successfully"),
                   [goals EXCEPT ![id] = goal], Append(notifications, note))

-----------------------------------------------------------------------------
(* Requests *)

PostBody(valid, milestoneFields, hasType, status, targetValue, currentValue, milestones) ==
  [valid |-> valid, milestoneFields |-> milestoneFields, hasType |-> hasType,
   status |-> status, targetValue |-> targetValue, currentValue |-> currentValue,
   milestones |-> milestones]

\* bodies of POST /: the well-formed ones, and one for each way the route or
\* the schema rejects a body
PostGoalBodies ==
  {PostBody(TRUE, TRUE, TRUE, st, t, c, ms) :
     st \in {"none", "paused"}, t \in Values, c \in Values, ms \in MilestoneLists}
    \cup {PostBody(FALSE, TRUE, TRUE, "none", 1, 0, <<>>),
          PostBody(TRUE, FALSE, TRUE, "none", 1, 0, <<>>),
          PostBody(TRUE, TRUE, FALSE, "none", 1, 0, <<>>),
          PostBody(TRUE, TRUE, TRUE, "bogus", 1, 0, <<>>)}

PutBody(valid, key, status, num, milestones, user) ==
  [valid |-> valid, key |-> key, status |-> status, num |-> num,
   milestones |-> milestones, user |-> user]

\* bodies of PUT /:id: one key each, or one the validators reject
PutGoalBodies ==
  {PutBody(TRUE, "status", st, 0, <<>>, "none") : st \in GoalStatusEnum}
    \cup {PutBody(TRUE, k, "none", v, <<>>, "none") :
            k \in {"currentValue", "targetValue"}, v \in Values}
    \cup {PutBody(TRUE, "milestones", "none", 0, ms, "none") : ms \in MilestoneLists}
    \cup {PutBody(TRUE, "user", "none", 0, <<>>, u) : u \in Users}
    \cup {PutBody(FALSE, "status", "none", 0, <<>>, "none")}

\* a request that finds no goal of the caller is answered from its validity
\* alone: one body of each kind stands for all of them
PutGoalBodiesFor(caller, id) ==
  IF id \in DOMAIN goals /\ goals[id].user = caller THEN PutGoalBodies
  ELSE {PutBody(TRUE, "status", "paused", 0, <<>>, "none"),
        PutBody(FALSE, "status", "none", 0, <<>>, "none")}

\* the last request served and its response
\* (valid: the route's validators pass)
Served(op, caller, id, valid, value, date, mid, out) ==
  [op |-> op, caller |-> caller, id |-> id, valid |-> valid, value |-> value,
   date |-> date, mid |-> mid, res |-> out.res]

-----------------------------------------------------------------------------
(* Actions of the goal routes *)

Serve(out, served) ==
  /\ goals' = out.goals
  /\ notifications' = out.notifications
  /\ last' = served
  /\ UNCHANGED <<foods, entries, inflight>>
  /\ UNCHANGED social

GetGoals ==
  \E caller \in Users :
    LET out == getGoals(caller)
    IN Serve(out, Served("list", caller, "none", TRUE, 0, "none", 0, out))

GetGoal ==
  \E caller \in Users, id \in GoalIds :
    LET out == getGoal(caller, id)
    IN Serve(out, Served("get", caller, id, TRUE, 0, "none", 0, out))

PostGoal ==
  \E caller \in Users, id \in GoalIds \ DOMAIN goals, body \in PostGoalBodies :
    LET out == postGoal(caller, id, body)
    IN Serve(out, Served("create", caller, id, body.valid, 0, "none", 0, out))

PutGoal ==
  \E caller \in Users, id \in GoalIds :
    \E body \in PutGoalBodiesFor(caller, id) :
      LET out == putGoal(caller, id, body)
      IN Serve(out, Served("update", caller, id, body.valid, 0, "none", 0, out))

DeleteGoal ==
  \E caller \in Users, id \in GoalIds :
    LET out == deleteGoal(caller, id)
    IN Serve(out, Served("delete", caller, id, TRUE, 0, "none", 0, out))

\* a request that finds no goal of the caller is answered before its value is
\* read: one value stands for all of them
ProgressValuesFor(caller, id, numeric) ==
  IF numeric /\ id \in DOMAIN goals /\ goals[id].user = caller THEN Values ELSE {0}

ProgressDatesFor(caller, id, numeric) ==
  IF numeric /\ id \in DOMAIN goals /\ goals[id].user = caller THEN ReqDates ELSE {"none"}

PostProgress ==
  \E caller \in Users, id \in GoalIds, numeric \in BOOLEAN :
    \E value \in ProgressValuesFor(caller, id, numeric),
       date \in ProgressDatesFor(caller, id, numeric) :
      LET out == postProgress(caller, id, numeric, value, date)
      IN Serve(out, Served("progress", caller, id, numeric, value, date, 0, out))

CompleteMilestone ==
  \E caller \in Users, id \in GoalIds, mid \in 1 .. MaxMilestones :
    LET out == completeMilestone(caller, id, mid)
    IN Serve(out, Served("milestone", caller, id, TRUE, 0, "none", mid, out))

-----------------------------------------------------------------------------
(* Specification of the goal routes *)

\* no progress update is between its read and its response
Idle ==
  [pc |-> "idle", caller |-> "none", id |-> "none", value |-> 0, date |-> "none",
   goal |-> <<>>]

Slots == 1 .. MaxInflight

NoRequest ==
  [op |-> "none", caller |-> "none", id |-> "none", valid |-> TRUE, value |-> 0,
   date |-> "none", mid |-> 0, res |-> Response(0, "")]

\* the registered accounts: u1 and u2 are active, u3 has been deactivated
AccountIds == {"u1", "u2", "u3"}

\* userSchema: isActive, followers and following of an account that follows
\* nobody
Accounts ==
  [a \in AccountIds |->
     [isActive |-> a \in Users, following |-> <<>>, followers |-> <<>>]]

Init ==
  /\ goals = <<>>
  /\ notifications = <<>>
  /\ foods = <<>>
  /\ entries = <<>>
  /\ last = NoRequest
  /\ inflight = [r \in Slots |-> Idle]
  /\ users = Accounts
  /\ posts = <<>>
  /\ activity = <<>>

Next ==
  \/ GetGoals
  \/ GetGoal
  \/ PostGoal
  \/ PutGoal
  \/ DeleteGoal
  \/ PostProgress
  \/ CompleteMilestone

Spec == Init /\ [][Next]_vars

-----------------------------------------------------------------------------
(* Properties of the goal routes.  A step is identified by the request it  *)
(* serves (last'); goals and notifications are the store the request       *)
(* found, goals' and notifications' the store it leaves.                   *)

GoalIdOps == {"get", "update", "delete", "progress", "milestone"}

\* the step serves a goal-progress update
ProgressStep == last'.op = "progress" /\ last'.valid

\* the caller of the step owns the goal the step names
OwnGoal == last'.id \in DOMAIN goals /\ goals[last'.id].user = last'.caller

\* the step serves a progress update the contract accepts: the caller's own
\* active goal and a non-negative number
AcceptedProgressStep ==
  ProgressStep /\ OwnGoal /\ goals[last'.id].status = "active" /\ last'.value >= 0

\* the date of the observation: the request's date, or now
ObservationDate == IF last'.date = "none" THEN "now" ELSE last'.date

\* the completion date a stored goal holds: none unless the schema declares it
PersistedCompletedAt(doc) ==
  IF "completedAt" \in GoalSchemaPaths THEN doc.completedAt ELSE "none"

Min(a, b) == IF a <= b THEN a ELSE b

\* C2: a progress update on the caller's own goal that is paused, completed
\* or cancelled is answered 400 "Cannot update progress on inactive goal" and
\* leaves the goal (history, currentValue, status, milestones) and the
\* notifications as they were.
C2_InactiveGoalRejected ==
  [][(ProgressStep /\ OwnGoal /\ goals[last'.id].status # "active")
       => /\ last'.res = Response(400, "Cannot update progress on inactive goal")
          /\ goals' = goals
          /\ notifications' = notifications]_vars

C2_Witness ==
  /\ last.op = "progress" /\ last.valid
  /\ last.id \in DOMAIN goals
  /\ goals[last.id].user = last.caller
  /\ goals[last.id].status = "paused"
  /\ goals[last.id].milestones # <<>>
  /\ last.value >= goals[last.id].targetValue
  /\ last.res.code = 400

\* C3: a request of get, update, delete, progress update or manual milestone
\* completion that names a goal of another user gets the very response a
\* request naming no stored goal gets, 404 "Goal not found", and the store is
\* left as it was.
C3_ForeignGoalIsNotFound ==
  [][(last'.op \in GoalIdOps /\ last'.valid /\ ~OwnGoal)
       => /\ last'.res = Response(404, "Goal not found")
          /\ goals' = goals
          /\ notifications' = notifications]_vars

C3_Witness ==
  /\ last.op \in GoalIdOps /\ last.valid
  /\ last.id \in DOMAIN goals
  /\ goals[last.id].user # last.caller
  /\ goals[last.id].status = "active"
  /\ last.res = Response(404, "Goal not found")

\* C4: an accepted progress update from previous value p to value v succeeds,
\* reports as newly completed exactly the milestones that were unachieved and
\* have p < target <= v, stamps each of them achieved with the observation's
\* date, and leaves every other milestone as it was.
C4_MilestonesCrossed ==
  [][AcceptedProgressStep
       => LET id == last'.id
              before == goals[id].milestones
              crossed == {i \in DOMAIN before :
                            /\ ~before[i].achieved
                            /\ goals[id].currentValue < before[i].value
                            /\ before[i].value <= last'.value}
          IN /\ last'.res.code = 200
             /\ last'.res.completedMilestones = crossed
             /\ id \in DOMAIN goals'
             /\ DOMAIN goals'[id].milestones = DOMAIN before
             /\ \A i \in DOMAIN before :
                  IF i \in crossed
                  THEN /\ goals'[id].milestones[i].achieved
                       /\ goals'[id].milestones[i].achievedDate = ObservationDate
                  ELSE goals'[id].milestones[i] = before[i]]_vars

\* C5: after an accepted progress update with value >= targetValue the stored
\* goal is completed and holds a completion date, and the response reports
\* the goal completed by this call; with value < targetValue the stored goal
\* is still active and the response reports it not completed.
C5_CompletionAtTarget ==
  [][AcceptedProgressStep
       => LET id == last'.id
          IN /\ last'.res.code = 200
             /\ id \in DOMAIN goals'
             /\ IF last'.value >= goals[id].targetValue
                THEN /\ goals'[id].status = "completed"
                     /\ PersistedCompletedAt(goals'[id]) # "none"
                     /\ last'.res.isGoalCompleted
                ELSE /\ goals'[id].status = "active"
                     /\ ~last'.res.isGoalCompleted]_vars

\* C6: an accepted progress update succeeds, appends exactly one record to the
\* stored progress history (the history before is a prefix of the history
\* after) and sets the stored currentValue to the submitted value, also when
\* that value is not above the previous one.
C6_HistoryAppended ==
  [][AcceptedProgressStep
       => LET id == last'.id
              before == PersistedHistory(goals[id])
          IN /\ last'.res.code = 200
             /\ id \in DOMAIN goals'
             /\ Len(PersistedHistory(goals'[id])) = Len(before) + 1
             /\ SubSeq(PersistedHistory(goals'[id]), 1, Len(before)) = before
             /\ goals'[id].currentValue = last'.value]_vars

\* C7: a progress update never resets an achieved milestone: a milestone
\* achieved before the request is still in the goal, achieved and with the
\* same achieved date after it, whatever the submitted value.
C7_AchievedIsMonotonic ==
  [][last'.op = "progress"
       => \A id \in DOMAIN goals : \A i \in DOMAIN goals[id].milestones :
            goals[id].milestones[i].achieved
              => /\ id \in DOMAIN goals'
                 /\ i \in DOMAIN goals'[id].milestones
                 /\ goals'[id].milestones[i].achieved
                 /\ goals'[id].milestones[i].achievedDate
                      = goals[id].milestones[i].achievedDate]_vars

C7_Witness ==
  /\ last.op = "progress" /\ last.valid
  /\ last.id \in DOMAIN goals
  /\ goals[last.id].user = last.caller
  /\ goals[last.id].status = "active"
  /\ \E i \in DOMAIN goals[last.id].milestones :
       /\ goals[last.id].milestones[i].achieved
       /\ last.value >= 0
       /\ last.value < goals[last.id].milestones[i].value

\* C8: a milestone is reported newly completed by at most one update (it was
\* unachieved before the reporting call and is achieved after it), and an
\* accepted update whose value equals the current value appends one more
\* history record and reports no milestone.
C8_MilestoneFiresOnce ==
  [][AcceptedProgressStep
       => LET id == last'.id
          IN /\ \A i \in last'.res.completedMilestones :
                  /\ i \in DOMAIN goals[id].milestones
                  /\ ~goals[id].milestones[i].achieved
                  /\ goals'[id].milestones[i].achieved
             /\ last'.value = goals[id].currentValue
                  => /\ last'.res.code = 200
                     /\ last'.res.completedMilestones = {}
                     /\ Len(PersistedHistory(goals'[id]))
                          = Len(PersistedHistory(goals[id])) + 1]_vars

\* C9: an accepted update that jumps from a current value below every
\* milestone target to a value at or above the goal's targetValue reports
\* every unachieved milestone it reaches as newly completed, completes the
\* goal in the same call and reports a progress percentage of 100.
C9_JumpCompletesAll ==
  [][(/\ AcceptedProgressStep
      /\ goals[last'.id].milestones # <<>>
      /\ goals[last'.id].targetValue > 0
      /\ last'.value >= goals[last'.id].targetValue
      /\ \A i \in DOMAIN goals[last'.id].milestones :
           goals[last'.id].currentValue < goals[last'.id].milestones[i].value)
       => LET id == last'.id
              reached == {i \in DOMAIN goals[id].milestones :
                            /\ ~goals[id].milestones[i].achieved
                            /\ goals[id].milestones[i].value <= last'.value}
          IN /\ last'.res.code = 200
             /\ last'.res.completedMilestones = reached
             /\ last'.res.isGoalCompleted
             /\ id \in DOMAIN goals'
             /\ goals'[id].status = "completed"
             /\ last'.res.progressPercentage = id :> Num(100, 1)]_vars

-----------------------------------------------------------------------------
(* Nutrition: foods, requests and stored entries.  Quantities and per-100 g *)
(* values are counted in tenths; a derived value (a per-100 g value times   *)
(* quantity / 100) is counted in units of 1 / NutritionScale.  Request      *)
(* instants are counted in half days.                                       *)

MaxEntries == 2
\* new-follower notifications stored
MaxFollowNotes == 1
\* activity-log records stored
MaxActivity == 1
\* foodItem.quantity / 100
Per100 == 100
\* new Date(entryDate.getTime() + 24 * 60 * 60 * 1000), in half days
DayLength == 2

NutritionScale == 10 * 10 * Per100

\* the foods of the catalogue, in the order they are created
FoodOrder == <<"f1", "f2">>
FoodIds == {FoodOrder[k] : k \in DOMAIN FoodOrder}

\* the body POST /foods is sent for each food: nutritionPer100g in tenths
FoodBody(id) ==
  IF id = "f1"
  THEN [calories |-> 520, protein |-> 3, carbohydrates |-> 138, fat |-> 2]
  ELSE [calories |-> 1650, protein |-> 310, carbohydrates |-> 0, fat |-> 36]

\* a food line item of a request body; sent is the calories value the client
\* put on the line item itself (0 when it sent none)
SentItem(food, quantity, unit, sent) ==
  [food |-> food, quantity |-> quantity, unit |-> unit, sent |-> sent]

ReqItem(food, quantity, unit) == SentItem(food, quantity, unit, 0)
ReqMeal(type, items) == [type |-> type, foods |-> items]

\* the meals a request carries: two foods in one meal, the same two foods in
\* two meals and with another unit, and one food with a calories value of
\* the client's on the line item
OneMeal ==
  <<ReqMeal("breakfast", <<ReqItem("f1", 755, "g"), ReqItem("f2", 1000, "cup")>>)>>

TwoMeals ==
  <<ReqMeal("lunch", <<ReqItem("f2", 1000, "g")>>),
    ReqMeal("dinner", <<ReqItem("f1", 755, "g")>>)>>

SentMeal ==
  <<ReqMeal("snack", <<SentItem("f2", 5, "piece", 500 * NutritionScale)>>)>>

MealRequests == {OneMeal, TwoMeals, SentMeal}

\* req.body.waterIntake: not given, or given with an amount
NoWater == [given |-> FALSE, amount |-> 0]
Water(amount) == [given |-> TRUE, amount |-> amount]

\* the request bodies: each of the meals above, the first without water
\* intake, the others with one
NutritionBodies ==
  {[meals |-> m, water |-> IF m = OneMeal THEN NoWater
                           ELSE IF m = TwoMeals THEN Water(3) ELSE Water(0)] :
     m \in MealRequests}

ReqInstants == {0, 1, 2}

NutritionCallers == {"u1"}

\* entry: the stored entry a 201 response carries (none on an error)
NutritionResponse(code, error, missing) ==
  [code |-> code, error |-> error, missing |-> missing, entry |-> <<>>]

\* res.status(201).json(entry)
Created(res, stored, k) == [res EXCEPT !.entry = <<stored[k]>>]

\* Math.round(x) for x >= 0, to a multiple of unit
RoundTo(n, unit) == ((2 * n + unit) \div (2 * unit)) * unit

RECURSIVE SumSeq(_)
SumSeq(q) == IF q = <<>> THEN 0 ELSE Head(q) + SumSeq(Tail(q))

RECURSIVE Flatten(_)
Flatten(qs) == IF qs = <<>> THEN <<>> ELSE Head(qs) \o Flatten(Tail(qs))

\* the food line items of a request, in the order the loops visit them
ItemsInOrder(meals) == Flatten([i \in DOMAIN meals |-> meals[i].foods])

\* Food.findById(id) finds no food
FoodMissing(id) == id \notin DOMAIN foods

Nutrients == {"calories", "protein", "carbohydrates", "fat"}

\* food.nutritionPer100g[n] * multiplier, unrounded
Exact(item, n) == foods[item.food][n] * item.quantity

ProcessedItem_byUnit(item) ==
  LET grams == IF item.unit = "cup" THEN 2 * item.quantity ELSE item.quantity
  IN [food |-> item.food, quantity |-> item.quantity, unit |-> item.unit, derived |-> TRUE,
      calories |-> foods[item.food].calories * grams,
      protein |-> foods[item.food].protein * grams,
      carbohydrates |-> foods[item.food].carbohydrates * grams,
      fat |-> foods[item.food].fat * grams]

\* nutrition.js 246-259: a processed line item
ProcessedItem(item) ==
  [food |-> item.food, quantity |-> item.quantity, unit |-> item.unit, derived |-> TRUE,
   calories |-> Exact(item, "calories"), protein |-> Exact(item, "protein"),
   carbohydrates |-> Exact(item, "carbohydrates"), fat |-> Exact(item, "fat")]

\* routes.js 989-994: calories rounded to a whole unit, macros to one decimal
RoundedItem(item) ==
  [food |-> item.food, quantity |-> item.quantity, unit |-> item.unit, derived |-> TRUE,
   calories |-> RoundTo(Exact(item, "calories"), NutritionScale),
   protein |-> RoundTo(Exact(item, "protein"), NutritionScale \div 10),
   carbohydrates |-> RoundTo(Exact(item, "carbohydrates"), NutritionScale \div 10),
   fat |-> RoundTo(Exact(item, "fat"), NutritionScale \div 10)]

\* routes.js 987: a line item whose food is not found is left as the request
\* sent it, without derived values
SkippedItem(item) ==
  [food |-> item.food, quantity |-> item.quantity, unit |-> item.unit, derived |-> FALSE,
   calories |-> item.sent, protein |-> 0, carbohydrates |-> 0, fat |-> 0]

ItemTotal(items, n) == SumSeq([i \in DOMAIN items |-> items[i][n]])

DailyTotal(meals, n) == SumSeq([i \in DOMAIN meals |-> ItemTotal(meals[i].foods, n)])

\* routes.js 996-999: mealTotals counts the line items whose food was found
mealTotals(items, n) ==
  SumSeq([i \in DOMAIN items |-> IF items[i].derived THEN items[i][n] ELSE 0])

\* routes.js 1003-1006: dailyTotals adds up the mealTotals
legacyDailyTotal(meals, n) ==
  SumSeq([i \in DOMAIN meals |-> mealTotals(meals[i].foods, n)])

\* nutrition.js 235-274
processedMeals(meals) ==
  [i \in DOMAIN meals |->
     LET items == [j \in DOMAIN meals[i].foods |-> ProcessedItem(meals[i].foods[j])]
     IN [type |-> meals[i].type, foods |-> items,
         totalCalories |-> ItemTotal(items, "calories")]]

\* routes.js 982-1007
legacyMeals(meals) ==
  [i \in DOMAIN meals |->
     LET items == [j \in DOMAIN meals[i].foods |->
                     IF FoodMissing(meals[i].foods[j].food)
                     THEN SkippedItem(meals[i].foods[j])
                     ELSE RoundedItem(meals[i].foods[j])]
     IN [type |-> meals[i].type, foods |-> items,
         totalCalories |-> RoundTo(mealTotals(items, "calories"), NutritionScale)]]

\* nutrition.js 277-283: the caller's first entry dated within 24 hours from
\* the request's date
ExistingEntry(caller, date) ==
  {k \in DOMAIN entries :
     /\ entries[k].user = caller
     /\ entries[k].date >= date
     /\ entries[k].date < date + DayLength}

\* the first food of the request, in loop order, that is not found
FirstMissing(meals) ==
  LET items == ItemsInOrder(meals)
      missing == {k \in DOMAIN items : FoodMissing(items[k].food)}
  IN IF missing = {} THEN "none"
     ELSE items[CHOOSE k \in missing : \A j \in missing : k <= j].food

\* nutrition.js 285-300: the write into the existing entry, or of a new one
writeEntry(caller, date, done, totals, water, found) ==
  IF found # {}
  THEN LET k == CHOOSE i \in found : \A j \in found : i <= j
           stored == [entries EXCEPT
                        ![k].meals = done,
                        ![k].dailyTotals = totals,
                        ![k].water = IF water.given THEN water.amount ELSE @]
       IN [res |-> Created(NutritionResponse(201, "", "none"), stored, k),
           entries |-> stored]
  ELSE LET stored == Append(entries,
                            [user |-> caller, date |-> date, meals |-> done,
                             dailyTotals |-> totals,
                             water |-> IF water.given THEN water.amount ELSE 0])
       IN [res |-> Created(NutritionResponse(201, "", "none"), stored, Len(stored)),
           entries |-> stored]

postEntries_patch(caller, date, meals, water) ==
  IF FirstMissing(meals) # "none"
  THEN [res |-> NutritionResponse(400, "Food not found", FirstMissing(meals)),
        entries |-> entries]
  ELSE LET done == processedMeals(meals)
           found == ExistingEntry(caller, date)
           k == CHOOSE i \in found : \A j \in found : i <= j
           totals == [n \in Nutrients |->
                        DailyTotal(done, n)
                          + IF found # {} THEN entries[k].dailyTotals[n] ELSE 0]
       IN writeEntry(caller, date, done, totals, water, found)

postEntries_create(caller, date, meals, water) ==
  IF FirstMissing(meals) # "none"
  THEN [res |-> NutritionResponse(400, "Food not found", FirstMissing(meals)),
        entries |-> entries]
  ELSE LET done == processedMeals(meals)
           totals == [n \in Nutrients |-> DailyTotal(done, n)]
       IN writeEntry(caller, date, done, totals, water, {})

\* POST /nutrition/entries (nutrition.js): every food is looked up before
\* anything is written; the first one not found ends the request with 400
postEntries(caller, date, meals, water) ==
  IF FirstMissing(meals) # "none"
  THEN [res |-> NutritionResponse(400, "Food not found", FirstMissing(meals)),
        entries |-> entries]
  ELSE LET done == processedMeals(meals)
           totals == [n \in Nutrients |-> DailyTotal(done, n)]
       IN writeEntry(caller, date, done, totals, water, ExistingEntry(caller, date))

\* POST /nutrition-entries (routes.js): a food that is not found is skipped,
\* and a new entry is always created
postNutritionEntries(caller, date, meals, water) ==
  LET done == legacyMeals(meals)
      totals == [n \in Nutrients |->
                   RoundTo(legacyDailyTotal(done, n),
                           IF n = "calories" THEN NutritionScale
                           ELSE NutritionScale \div 10)]
      stored == Append(entries,
                       [user |-> caller, date |-> date, meals |-> done,
                        dailyTotals |-> totals,
                        water |-> IF water.given THEN water.amount ELSE 0])
  IN [res |-> Created(NutritionResponse(201, "Nutrition entry logged successfully", "none"),
                      stored, Len(stored)),
      entries |-> stored]

-----------------------------------------------------------------------------
(* Actions of the nutrition routes *)

\* repeat: the request is the one served just before
ServedEntry(op, caller, date, meals, water, out) ==
  [op |-> op, caller |-> caller, date |-> date, meals |-> meals, water |-> water,
   repeat |-> /\ last.op = op
              /\ last.caller = caller
              /\ last.date = date
              /\ last.meals = meals
              /\ last.water = water,
   res |-> out.res]

\* POST /foods: the next food of the catalogue is created
PostFood ==
  \E k \in DOMAIN FoodOrder :
    /\ FoodOrder[k] \notin DOMAIN foods
    /\ \A j \in 1 .. k - 1 : FoodOrder[j] \in DOMAIN foods
    /\ foods' = FoodOrder[k] :> FoodBody(FoodOrder[k]) @@ foods
    /\ last' = [op |-> "food", caller |-> "u1", date |-> 0, meals |-> <<>>,
                water |-> NoWater, repeat |-> FALSE,
                res |-> NutritionResponse(201, "", "none")]
    /\ UNCHANGED <<goals, notifications, entries, inflight>>
    /\ UNCHANGED social

PostEntries ==
  \E caller \in NutritionCallers, date \in ReqInstants, body \in NutritionBodies :
    LET out == postEntries(caller, date, body.meals, body.water)
    IN /\ Len(out.entries) <= MaxEntries
       /\ entries' = out.entries
       /\ last' = ServedEntry("entries", caller, date, body.meals, body.water, out)
       /\ UNCHANGED <<goals, notifications, foods, inflight>>
       /\ UNCHANGED social

PostNutritionEntries ==
  \E caller \in NutritionCallers, date \in ReqInstants, body \in NutritionBodies :
    LET out == postNutritionEntries(caller, date, body.meals, body.water)
    IN /\ Len(out.entries) <= MaxEntries
       /\ entries' = out.entries
       /\ last' = ServedEntry("nutrition-entries", caller, date, body.meals, body.water, out)
       /\ UNCHANGED <<goals, notifications, foods, inflight>>
       /\ UNCHANGED social

NextNutrition ==
  \/ PostFood
  \/ PostEntries
  \/ PostNutritionEntries

SpecNutrition == Init /\ [][NextNutrition]_vars

\* the nutrition routes the server mounts (routes/index.js)
NextEntries ==
  \/ PostFood
  \/ PostEntries

SpecEntries == Init /\ [][NextEntries]_vars

-----------------------------------------------------------------------------
(* Properties of the nutrition routes *)

\* the step serves a nutrition-entry request naming a food that is not stored
MissingFoodStep ==
  /\ last'.op \in {"entries", "nutrition-entries"}
  /\ \E i \in DOMAIN last'.meals : \E j \in DOMAIN last'.meals[i].foods :
       FoodMissing(last'.meals[i].foods[j].food)

\* C1: a nutrition-entry request with a food line item whose Food id is not
\* stored fails with an error naming a missing id, and creates or changes no
\* entry, wherever the item stands among the meals and whether or not an
\* entry exists for the date.
C1_MissingFoodRejected ==
  [][MissingFoodStep
       => /\ last'.res.code = 400
          /\ FoodMissing(last'.res.missing)
          /\ \E i \in DOMAIN last'.meals : \E j \in DOMAIN last'.meals[i].foods :
               last'.meals[i].foods[j].food = last'.res.missing
          /\ entries' = entries]_vars

\* the stored line items: entry, meal and position
StoredItems ==
  UNION {UNION {{<<k, i, j>> : j \in DOMAIN entries[k].meals[i].foods} :
                  i \in DOMAIN entries[k].meals} :
           k \in DOMAIN entries}

StoredItem(x) == entries[x[1]].meals[x[2]].foods[x[3]]

\* C11: every stored food line item with quantity q > 0 whose Food f was
\* found holds calories = round(f.calories * q / 100) to the whole unit, and
\* protein, carbohydrates and fat = the per-100 g value * q / 100 rounded to
\* one decimal place, each from its own per-100 g value.
C11_LineItemsRounded ==
  \A x \in StoredItems :
    LET item == StoredItem(x)
    IN (item.derived /\ item.quantity > 0)
         => /\ item.calories
                 = RoundTo(foods[item.food].calories * item.quantity, NutritionScale)
            /\ \A n \in {"protein", "carbohydrates", "fat"} :
                 item[n] = RoundTo(foods[item.food][n] * item.quantity,
                                   NutritionScale \div 10)

\* C12: in every stored entry each meal's totalCalories is the sum of the
\* stored calories of the meal's line items, the daily calories are the sum
\* of the meals' totalCalories, and each daily macro is the sum of that macro
\* over all line items of all meals (a sum that does not depend on how the
\* line items are grouped into meals).
C12_TotalsAreSums ==
  \A k \in DOMAIN entries :
    LET meals == entries[k].meals
    IN /\ \A i \in DOMAIN meals :
            meals[i].totalCalories = ItemTotal(meals[i].foods, "calories")
       /\ entries[k].dailyTotals.calories
            = SumSeq([i \in DOMAIN meals |-> meals[i].totalCalories])
       /\ \A n \in Nutrients \ {"calories"} :
            entries[k].dailyTotals[n]
              = SumSeq([x \in DOMAIN ItemsInOrder(meals) |-> ItemsInOrder(meals)[x][n]])

\* the calendar date of an instant
Day(instant) == instant \div DayLength

\* C13: after any nutrition-entry write there is at most one stored entry for
\* each user and calendar date, and a write changes no entry of a calendar
\* date other than the request's.
C13_OneEntryPerDay ==
  [][last'.op \in {"entries", "nutrition-entries"}
       => /\ \A i \in DOMAIN entries' : \A j \in DOMAIN entries' :
               (/\ entries'[i].user = entries'[j].user
                /\ Day(entries'[i].date) = Day(entries'[j].date)) => i = j
          /\ \A k \in DOMAIN entries :
               (k \in DOMAIN entries' /\ entries'[k] # entries[k])
                 => Day(entries[k].date) = Day(last'.date)]_vars

-----------------------------------------------------------------------------
(* Properties of the nutrition routes the server mounts *)

\* the step serves a write of POST /nutrition/entries that finds an entry
OverwriteStep ==
  /\ last'.op = "entries"
  /\ last'.res.code = 201
  /\ ExistingEntry(last'.caller, last'.date) # {}

\* the entry an overwrite finds
Overwritten ==
  CHOOSE k \in ExistingEntry(last'.caller, last'.date) :
    \A j \in ExistingEntry(last'.caller, last'.date) : k <= j

\* a line item as derived from the request and the stored Food alone
DerivedAlone(item) ==
  [food |-> item.food, quantity |-> item.quantity, unit |-> item.unit, derived |-> TRUE,
   calories |-> foods[item.food].calories * item.quantity,
   protein |-> foods[item.food].protein * item.quantity,
   carbohydrates |-> foods[item.food].carbohydrates * item.quantity,
   fat |-> foods[item.food].fat * item.quantity]

\* C14: a write that overwrites an existing entry leaves in it exactly the
\* meals, line items and totals derived from the new request (nothing of the
\* previous entry survives or is added to), keeps the entry's owner and date,
\* keeps its water intake unless the request supplies one, and changes no
\* other entry.
C14_OverwriteReplaces ==
  [][OverwriteStep
       => LET k == Overwritten
              req == last'.meals
              now == entries'[k]
          IN /\ DOMAIN entries' = DOMAIN entries
             /\ \A j \in DOMAIN entries \ {k} : entries'[j] = entries[j]
             /\ now.user = entries[k].user
             /\ now.date = entries[k].date
             /\ DOMAIN now.meals = DOMAIN req
             /\ \A i \in DOMAIN req :
                  /\ now.meals[i].type = req[i].type
                  /\ now.meals[i].foods
                       = [j \in DOMAIN req[i].foods |-> DerivedAlone(req[i].foods[j])]
                  /\ now.meals[i].totalCalories
                       = SumSeq([j \in DOMAIN req[i].foods |->
                                   DerivedAlone(req[i].foods[j]).calories])
             /\ \A n \in Nutrients :
                  now.dailyTotals[n]
                    = SumSeq([x \in DOMAIN ItemsInOrder(req) |->
                                DerivedAlone(ItemsInOrder(req)[x])[n]])
             /\ now.water = IF last'.water.given THEN last'.water.amount
                            ELSE entries[k].water]_vars

\* an overwrite served: the stored entry holds the request's meals, a date
\* that is not the request's and a water intake the request did not supply
C14_Witness ==
  /\ last.op = "entries"
  /\ last.res.code = 201
  /\ ~last.water.given
  /\ \E k \in DOMAIN entries :
       /\ last.res.entry = <<entries[k]>>
       /\ entries[k].date # last.date
       /\ entries[k].water > 0
       /\ Len(entries[k].meals) = Len(last.meals)

\* C15: a nutrition-entry request that repeats the request served just before
\* it (the Food records being the same) leaves the store as the first one
\* left it, and gets the same response, with the same stored entry.
C15_RepeatIsIdempotent ==
  [][(last'.op = "entries" /\ last'.repeat)
       => /\ entries' = entries
          /\ last'.res = last.res]_vars

C15_Witness ==
  /\ last.op = "entries"
  /\ last.repeat
  /\ last.res.code = 201
  /\ Len(last.res.entry) = 1
  /\ Len(entries) = 1

\* C16: the derived calories, protein, carbohydrates and fat of every stored
\* line item are non-negative, and two stored line items with the same food
\* and quantity hold the same derived values, whatever their units.
C16_DerivedByFoodAndQuantity ==
  /\ \A x \in StoredItems : \A n \in Nutrients : StoredItem(x)[n] >= 0
  /\ \A x \in StoredItems : \A y \in StoredItems :
       (/\ StoredItem(x).food = StoredItem(y).food
        /\ StoredItem(x).quantity = StoredItem(y).quantity)
         => \A n \in Nutrients : StoredItem(x)[n] = StoredItem(y)[n]

C16_Witness ==
  \E x \in StoredItems : \E y \in StoredItems :
    /\ StoredItem(x).food = StoredItem(y).food
    /\ StoredItem(x).quantity = StoredItem(y).quantity
    /\ StoredItem(x).unit # StoredItem(y).unit
    /\ StoredItem(x).calories > 0

-----------------------------------------------------------------------------
(* Ownership of goals *)

\* C17: a goal is created owned by the caller of the request that creates it,
\* its owner never changes afterwards, and a request changes or deletes only
\* goals of its caller.
C17_OwnerNeverChanges ==
  [][/\ \A id \in DOMAIN goals' \ DOMAIN goals : goals'[id].user = last'.caller
     /\ \A id \in DOMAIN goals \cap DOMAIN goals' : goals'[id].user = goals[id].user
     /\ \A id \in DOMAIN goals :
          (id \notin DOMAIN goals' \/ goals'[id] # goals[id])
            => goals[id].user = last'.caller]_vars

-----------------------------------------------------------------------------
(* Notifications of the progress update *)

\* the milestones an update from the stored value to last'.value newly
\* completes: unachieved, above the stored value and at or below the new one
NewlyCompleted ==
  {i \in DOMAIN goals[last'.id].milestones :
     /\ ~goals[last'.id].milestones[i].achieved
     /\ goals[last'.id].currentValue < goals[last'.id].milestones[i].value
     /\ goals[last'.id].milestones[i].value <= last'.value}

\* the update completes the goal
CompletesGoal == last'.value >= goals[last'.id].targetValue

\* C18: an accepted progress update succeeds and adds exactly one notification
\* for each milestone it newly completes and one more if it completes the
\* goal, all addressed to the goal's owner, and none otherwise; the
\* notifications stored before are kept.
C18_OneNotificationEach ==
  [][AcceptedProgressStep
       => LET added == Cardinality(NewlyCompleted) + (IF CompletesGoal THEN 1 ELSE 0)
          IN /\ last'.res.code = 200
             /\ Len(notifications') = Len(notifications) + added
             /\ SubSeq(notifications', 1, Len(notifications)) = notifications
             /\ \A x \in DOMAIN notifications' \ DOMAIN notifications :
                  notifications'[x].user = goals[last'.id].user]_vars

\* the notification the update would save is rejected by the Notification
\* schema
NotificationFails ==
  \/ /\ CompletesGoal
     /\ ~NotificationValid(GoalCompletionNotification(goals[last'.id], last'.id))
  \/ /\ NewlyCompleted # {}
     /\ ~NotificationValid(MilestoneNotification(goals[last'.id], last'.id))

\* C19: when saving a notification fails during an accepted progress update,
\* the update still answers success and the goal's new currentValue, its
\* completed status and its newly achieved milestones are persisted.
C19_NotificationFailureSwallowed ==
  [][(AcceptedProgressStep /\ NotificationFails)
       => /\ last'.res.code = 200
          /\ last'.id \in DOMAIN goals'
          /\ goals'[last'.id].currentValue = last'.value
          /\ CompletesGoal => goals'[last'.id].status = "completed"
          /\ \A i \in NewlyCompleted : goals'[last'.id].milestones[i].achieved]_vars

-----------------------------------------------------------------------------
(* Progress updates in flight: a request reads the goal (await Goal.findOne) *)
(* and runs the rest of its handler on the document it read, after other    *)
(* requests may have been served.                                           *)

\* goals.js 221-224: the document the request reads, if it finds one
ReadGoal(caller, id) == IF FindOneGoal(id, caller) THEN <<goals[id]>> ELSE <<>>

\* goals.js 226-276 on the document read
progressAfterRead(q) ==
  IF q.goal = <<>> THEN Unchanged(Response(404, "Goal not found"))
  ELSE IF ~IsActive(q.goal[1])
  THEN Unchanged(Response(400, "Cannot update progress on inactive goal"))
  ELSE IF "progressHistory" \notin GoalSchemaPaths
  THEN Unchanged(Response(500, "Failed to update progress"))
  ELSE progressFromMilestoneCheck(q.id, [q.goal[1] EXCEPT !.currentValue = q.value],
                                  q.goal[1].currentValue, q.value)

\* a request passes the validators and reads the goal
BeginProgress ==
  \E r \in Slots, caller \in Users, id \in GoalIds, value \in 0 .. MaxValue :
    /\ inflight[r] = Idle
    /\ \A x \in 1 .. r - 1 : inflight[x] # Idle
    /\ inflight' = [inflight EXCEPT
                      ![r] = [pc |-> "read", caller |-> caller, id |-> id,
                              value |-> value, date |-> "none",
                              goal |-> ReadGoal(caller, id)]]
    /\ UNCHANGED <<goals, notifications, foods, entries, last>>
    /\ UNCHANGED social

\* the rest of the handler runs and the request is answered
EndProgress ==
  \E r \in Slots :
    /\ inflight[r].pc = "read"
    /\ LET q == inflight[r]
           out == progressAfterRead(q)
       IN /\ goals' = out.goals
          /\ notifications' = out.notifications
          /\ last' = Served("progress", q.caller, q.id, TRUE, q.value, q.date, 0, out)
    /\ inflight' = [inflight EXCEPT ![r] = Idle]
    /\ UNCHANGED <<foods, entries>>
    /\ UNCHANGED social

NextConcurrent ==
  \/ PostGoal
  \/ BeginProgress
  \/ EndProgress

SpecConcurrent == Init /\ [][NextConcurrent]_vars

\* the completion notifications stored for a goal
CompletionNotifications(id) ==
  {x \in DOMAIN notifications' :
     /\ notifications'[x].goal = id
     /\ notifications'[x].type = GoalCompletionNotification(goals'[id], id).type}

\* C20: whenever a progress update that read the caller's active goal with a
\* value at or above the target has been answered, however the requests in
\* flight interleave, the goal is completed and exactly one completion
\* notification is stored for it.
C20_CompletesExactlyOnce ==
  [][\A r \in Slots :
       (/\ inflight[r].pc = "read"
        /\ inflight'[r] = Idle
        /\ inflight[r].goal # <<>>
        /\ inflight[r].goal[1].status = "active"
        /\ inflight[r].value >= inflight[r].goal[1].targetValue)
         => /\ inflight[r].id \in DOMAIN goals'
            /\ goals'[inflight[r].id].status = "completed"
            /\ Cardinality(CompletionNotifications(inflight[r].id)) = 1]_vars

\* C21: when a progress update is answered while another request that read
\* the same active goal is still in flight, it is not rejected, and the
\* stored currentValue and status are those it wrote (the last save wins).
C21_LastWriteWins ==
  [][\A r \in Slots :
       (/\ inflight[r].pc = "read"
        /\ inflight'[r] = Idle
        /\ inflight[r].goal # <<>>
        /\ inflight[r].goal[1].status = "active"
        /\ \E o \in Slots \ {r} :
             /\ inflight[o].pc = "read"
             /\ inflight[o].id = inflight[r].id
             /\ inflight[o].goal # <<>>)
         => /\ last'.res.code = 200
            /\ inflight[r].id \in DOMAIN goals'
            /\ goals'[inflight[r].id].currentValue = inflight[r].value
            /\ goals'[inflight[r].id].status
                 = IF inflight[r].value >= inflight[r].goal[1].targetValue
                   THEN "completed" ELSE "active"]_vars

-----------------------------------------------------------------------------
(* Invariants of the stored goals *)

\* C23: every stored goal has non-negative currentValue and targetValue, and
\* a progress update carrying a negative value is answered 400 and leaves the
\* stored goals as they were.
C23_ValuesNonNegative ==
  [][/\ \A id \in DOMAIN goals' :
          goals'[id].currentValue >= 0 /\ goals'[id].targetValue >= 0
     /\ (ProgressStep /\ OwnGoal /\ last'.value < 0)
          => (last'.res.code = 400 /\ goals' = goals)]_vars

\* C26: no stored goal with status active and a non-zero targetValue has
\* reached its target: its currentValue is below its targetValue.
C26_ActiveBelowTarget ==
  \A id \in DOMAIN goals :
    (goals[id].status = "active" /\ goals[id].targetValue # 0)
      => goals[id].currentValue < goals[id].targetValue

\* C27: a goal update that takes a goal from a status other than completed to
\* completed adds exactly one completion notification, addressed to the
\* goal's owner; any other goal update adds none.
C27_PutCompletionNotifiesOnce ==
  [][last'.op = "update"
       => IF /\ OwnGoal
             /\ goals[last'.id].status # "completed"
             /\ last'.id \in DOMAIN goals'
             /\ goals'[last'.id].status = "completed"
          THEN /\ Len(notifications') = Len(notifications) + 1
               /\ SubSeq(notifications', 1, Len(notifications)) = notifications
               /\ notifications'[Len(notifications')].user = goals[last'.id].user
          ELSE notifications' = notifications]_vars

\* C28: a manual completion of a milestone that is already achieved is
\* answered 400 and changes nothing; a manual completion of a milestone not
\* yet achieved succeeds, stores it achieved with a date and adds exactly one
\* notification for the owner.
C28_MilestoneCompletedOnce ==
  [][(/\ last'.op = "milestone"
      /\ OwnGoal
      /\ last'.mid \in DOMAIN goals[last'.id].milestones)
       => LET id == last'.id
              m == goals[id].milestones[last'.mid]
          IN IF m.achieved
             THEN /\ last'.res.code = 400
                  /\ goals' = goals
                  /\ notifications' = notifications
             ELSE /\ last'.res.code = 200
                  /\ goals'[id].milestones[last'.mid].achieved
                  /\ goals'[id].milestones[last'.mid].achievedDate # "none"
                  /\ Len(notifications') = Len(notifications) + 1
                  /\ notifications'[Len(notifications')].user = goals[id].user]_vars

-----------------------------------------------------------------------------
(* Nutrition entries in flight: a request of POST /entries looks up its     *)
(* foods and the caller's entry of the day (await NutritionEntry.findOne),  *)
(* and saves after other requests may have saved.  The food lookups read    *)
(* only the foods, which no entry write changes.                            *)

\* nutrition.js 233-283: the handler up to the document findOne gives it
entryAfterLookup(caller, date, meals, water) ==
  LET done == processedMeals(meals)
  IN [pc |-> "entry", caller |-> caller, date |-> date, meals |-> meals,
      water |-> water, done |-> done,
      totals |-> [n \in Nutrients |-> DailyTotal(done, n)],
      found |-> ExistingEntry(caller, date), stale |-> FALSE]

\* the entry a request found, by its place in the collection
FoundEntry(q) == CHOOSE i \in q.found : \A j \in q.found : i <= j

\* nutrition.js 285-304: the save of the request.  conflict: the document
\* it found was saved by another request since, and save() rejects the stale
\* copy (the handler's catch answers 500)
saveEntry(q, conflict) ==
  IF conflict
  THEN [res |-> NutritionResponse(500, "Failed to create nutrition entry", "none"),
        entries |-> entries]
  ELSE writeEntry(q.caller, q.date, q.done, q.totals, q.water, q.found)

\* a request passes the validators and runs up to the answer of findOne; a
\* food that is not found ends it there
BeginEntries ==
  \E r \in Slots, caller \in NutritionCallers, date \in ReqInstants,
     body \in NutritionBodies :
    /\ inflight[r] = Idle
    /\ \A x \in 1 .. r - 1 : inflight[x] # Idle
    /\ IF FirstMissing(body.meals) # "none"
       THEN /\ last' = ServedEntry("entries", caller, date, body.meals, body.water,
                                   postEntries(caller, date, body.meals, body.water))
            /\ UNCHANGED inflight
       ELSE /\ inflight' = [inflight EXCEPT
                              ![r] = entryAfterLookup(caller, date, body.meals,
                                                      body.water)]
            /\ UNCHANGED last
    /\ UNCHANGED <<goals, notifications, foods, entries>>
    /\ UNCHANGED social

\* the request saves and is answered; the other requests that found the
\* document it saves now hold a stale copy
EndEntries ==
  \E r \in Slots :
    /\ inflight[r].pc = "entry"
    /\ LET q == inflight[r]
       IN \E conflict \in (IF q.stale THEN BOOLEAN ELSE {FALSE}) :
            LET out == saveEntry(q, conflict)
            IN /\ Len(out.entries) <= MaxEntries
               /\ entries' = out.entries
               /\ last' = ServedEntry("entries", q.caller, q.date, q.meals, q.water, out)
               /\ inflight' =
                    [o \in Slots |->
                       IF o = r THEN Idle
                       ELSE IF /\ ~conflict
                               /\ q.found # {}
                               /\ inflight[o].pc = "entry"
                               /\ inflight[o].found # {}
                               /\ FoundEntry(inflight[o]) = FoundEntry(q)
                       THEN [inflight[o] EXCEPT !.stale = TRUE]
                       ELSE inflight[o]]
    /\ UNCHANGED <<goals, notifications, foods>>
    /\ UNCHANGED social

NextEntriesConcurrent ==
  \/ PostFood
  \/ BeginEntries
  \/ EndEntries

SpecEntriesConcurrent == Init /\ [][NextEntriesConcurrent]_vars

\* C22: two writes for the same user and date that both look up the entry
\* before either saves leave one entry for that user and date, holding the
\* meals and totals of the request that saved last: the store never holds two
\* entries of one user with the same date, and a request that saves leaves its
\* meals and totals in the entry of its date.
C22_ConcurrentWritesOneEntry ==
  [][/\ \A i, j \in DOMAIN entries' :
          (entries'[i].user = entries'[j].user /\ entries'[i].date = entries'[j].date)
            => i = j
     /\ \A r \in Slots :
          (inflight[r].pc = "entry" /\ inflight'[r] = Idle)
            => /\ last'.res.code = 201
               /\ \E k \in DOMAIN entries' :
                    /\ entries'[k].user = inflight[r].caller
                    /\ entries'[k].meals = inflight[r].done
                    /\ entries'[k].dailyTotals = inflight[r].totals]_vars

-----------------------------------------------------------------------------
(* Protected routes of the forum (routes/social/social.js): every request   *)
(* passes authenticateToken (router.use) before its validators and its      *)
(* handler.  The activity log is write-only; it is observed in the          *)
(* specification of the logged routes below.                                *)

\* the Authorization header of a request: no token, a token jwt.verify
\* rejects, or a token signed for a user id
Token(kind, userId) == [kind |-> kind, userId |-> userId]

\* u9 is the id of no stored user
Tokens ==
  {Token("missing", "none"), Token("rejected", "none")}
    \cup {Token("signed", a) : a \in AccountIds \cup {"u9"}}

\* auth.js 5-24: the response that ends the request, or the user attached
\* to it (next: the request goes on to the route)
authenticateToken(token) ==
  IF token.kind = "missing"
  THEN [next |-> FALSE, code |-> 401, error |-> "Access token required",
        user |-> "none"]
  ELSE IF token.kind # "signed"
  THEN [next |-> FALSE, code |-> 403, error |-> "Invalid token", user |-> "none"]
  ELSE IF token.userId \notin DOMAIN users \/ ~users[token.userId].isActive
  THEN [next |-> FALSE, code |-> 401, error |-> "Invalid or inactive user",
        user |-> "none"]
  ELSE [next |-> TRUE, code |-> 0, error |-> "", user |-> token.userId]

PostIds == {"p1", "p2"}

ForumResponse(code, error, isLiked, likesCount) ==
  [code |-> code, error |-> error, isLiked |-> isLiked, likesCount |-> likesCount]

\* the places of the likes of a user in a list of likes
LikesOf(likes, user) == {i \in DOMAIN likes : likes[i].user = user}

\* likes.pull({ _id }): the list without the like at place k
WithoutLike(likes, k) == SubSeq(likes, 1, k - 1) \o SubSeq(likes, k + 1, Len(likes))

\* POST /forum/posts: the post is stored with no likes
createPost(caller, id, valid) ==
  IF ~valid
  THEN [res |-> ForumResponse(400, "Validation failed", FALSE, 0), posts |-> posts]
  ELSE [res |-> ForumResponse(201, "", FALSE, 0),
        posts |-> id :> [author |-> caller, likes |-> <<>>] @@ posts]

likePost_push(caller, id) ==
  IF id \notin DOMAIN posts
  THEN [res |-> ForumResponse(404, "Forum post not found", FALSE, 0), posts |-> posts]
  ELSE LET likes == Append(posts[id].likes, [user |-> caller])
       IN [res |-> ForumResponse(200, "", TRUE, Len(likes)),
           posts |-> [posts EXCEPT ![id].likes = likes]]

\* POST /forum/posts/:id/like: the caller's first like is pulled, or a like
\* of the caller is pushed
likePost(caller, id) ==
  IF id \notin DOMAIN posts
  THEN [res |-> ForumResponse(404, "Forum post not found", FALSE, 0), posts |-> posts]
  ELSE LET found == LikesOf(posts[id].likes, caller)
           existingLike == CHOOSE i \in found : \A j \in found : i <= j
           likes == IF found # {} THEN WithoutLike(posts[id].likes, existingLike)
                    ELSE Append(posts[id].likes, [user |-> caller])
       IN [res |-> ForumResponse(200, "", found = {}, Len(likes)),
           posts |-> [posts EXCEPT ![id].likes = likes]]

\* the request served: its token, the user authenticateToken attached,
\* whether the route was reached and the response
ServedForum(op, token, auth, id, res) ==
  [op |-> op, token |-> token, caller |-> auth.user, id |-> id,
   reached |-> auth.next, res |-> res]

\* a request to a forum route: rejected by authenticateToken, or handled
ForumRequest(op, token, id, out) ==
  LET auth == authenticateToken(token)
  IN /\ IF auth.next
        THEN /\ posts' = out.posts
             /\ last' = ServedForum(op, token, auth, id, out.res)
        ELSE /\ posts' = posts
             /\ last' = ServedForum(op, token, auth, id,
                                    ForumResponse(auth.code, auth.error, FALSE, 0))
     /\ UNCHANGED <<goals, notifications, foods, entries, inflight, users, activity>>

CreatePost ==
  \E token \in Tokens, id \in PostIds \ DOMAIN posts, valid \in BOOLEAN :
    ForumRequest("post", token, id,
                 createPost(authenticateToken(token).user, id, valid))

LikePost ==
  \E token \in Tokens, id \in PostIds :
    ForumRequest("like", token, id, likePost(authenticateToken(token).user, id))

NextForum ==
  \/ CreatePost
  \/ LikePost

SpecForum == Init /\ [][NextForum]_vars

\* a request to a forum route has just been served
ForumStep == last'.op \in {"post", "like"}

\* C24: a request with a missing token, an invalid token, or a token of a
\* non-existent or inactive user is answered 401 and never reaches the route
\* handler; only a valid token of an active user attaches that user to the
\* request and lets it proceed.
C24_UnauthenticatedGets401 ==
  [][ForumStep
       => LET token == last'.token
              active == /\ token.kind = "signed"
                        /\ token.userId \in DOMAIN users
                        /\ users[token.userId].isActive
          IN IF active
             THEN last'.reached /\ last'.caller = token.userId
             ELSE /\ ~last'.reached
                  /\ last'.res.code = 401
                  /\ posts' = posts]_vars

\* the users whose like a post holds
LikeUsers(likes) == {likes[i].user : i \in DOMAIN likes}

\* the likes of a post held by users other than the given one, in order
RECURSIVE LikesOfOthers(_, _)
LikesOfOthers(likes, user) ==
  IF likes = <<>> THEN <<>>
  ELSE IF Head(likes).user = user THEN LikesOfOthers(Tail(likes), user)
  ELSE <<Head(likes)>> \o LikesOfOthers(Tail(likes), user)

\* a like request of an authenticated user on a stored post
LikeStep == last'.op = "like" /\ last'.reached /\ last'.id \in DOMAIN posts

-----------------------------------------------------------------------------
(* Follow routes: POST and DELETE /follow/:userId (routes/social/social.js)  *)
(* read both users, change the two lists in memory and save the two          *)
(* documents (Promise.all): each save is one update of one stored list, and  *)
(* updates of other requests may come between them.  POST /:userId/follow    *)
(* (routes/users/users.js) follows or unfollows by updates of its own.       *)

\* currentUser.following.includes(userId)
Includes(list, x) == \E i \in DOMAIN list : list[i] = x

\* the update a save sends for list.pull(x), and $pull: every x is removed
RECURSIVE Pull(_, _)
Pull(list, x) ==
  IF list = <<>> THEN <<>>
  ELSE IF Head(list) = x THEN Pull(Tail(list), x)
  ELSE <<Head(list)>> \o Pull(Tail(list), x)

\* $addToSet
AddToSet(list, x) == IF Includes(list, x) THEN list ELSE Append(list, x)

\* the user ids a request names: the stored users, and u9, no user's id
TargetIds == AccountIds \cup {"u9"}

\* the authenticated user of the follow requests
FollowCallers == {"u1"}

FollowResponse(code, error) == [code |-> code, error |-> error]

ServedFollow(op, caller, target, res) ==
  [op |-> op, caller |-> caller, target |-> target, res |-> res]

\* the two saves of a request, not yet made
BothSaves == {"following", "followers"}

\* POST /follow/:userId up to Promise.all: the response that ends the
\* request, or none (code 0) when it goes on to its saves
followAfterRead(caller, target) ==
  IF target = caller THEN FollowResponse(400, "Cannot follow yourself")
  ELSE IF target \notin DOMAIN users \/ ~users[target].isActive
  THEN FollowResponse(404, "User not found")
  ELSE IF Includes(users[caller].following, target)
  THEN FollowResponse(400, "Already following this user")
  ELSE FollowResponse(0, "")

\* DELETE /follow/:userId up to Promise.all
unfollowAfterRead(caller, target) ==
  IF target \notin DOMAIN users THEN FollowResponse(404, "User not found")
  ELSE FollowResponse(0, "")

\* one of the two saves of a request: the pushed or pulled id reaches the
\* stored list of the document saved
savedList(q, field) ==
  LET doc == IF field = "following" THEN q.caller ELSE q.target
      x == IF field = "following" THEN q.target ELSE q.caller
  IN [users EXCEPT
        ![doc][field] = IF q.pc = "follow" THEN Append(@, x) ELSE Pull(@, x)]

\* a request of the follow or of the unfollow route runs up to its saves
BeginFollow ==
  \E r \in Slots, op \in {"follow", "unfollow"}, caller \in FollowCallers,
     target \in TargetIds :
    LET res == IF op = "follow" THEN followAfterRead(caller, target)
               ELSE unfollowAfterRead(caller, target)
    IN /\ inflight[r] = Idle
       /\ \A x \in 1 .. r - 1 : inflight[x] # Idle
       /\ IF res.code # 0
          THEN /\ last' = ServedFollow(op, caller, target, res)
               /\ UNCHANGED inflight
          ELSE /\ inflight' = [inflight EXCEPT
                                 ![r] = [pc |-> op, caller |-> caller,
                                         target |-> target, pending |-> BothSaves]]
               /\ UNCHANGED last
       /\ UNCHANGED <<goals, notifications, foods, entries, users, posts, activity>>

\* one save of a request in flight; after the second the request is answered
SaveFollow ==
  \E r \in Slots :
    /\ inflight[r].pc \in {"follow", "unfollow"}
    /\ \E field \in inflight[r].pending :
         LET q == inflight[r]
         IN /\ users' = savedList(q, field)
            /\ IF q.pending = {field}
               THEN /\ inflight' = [inflight EXCEPT ![r] = Idle]
                    /\ last' = ServedFollow(q.pc, q.caller, q.target,
                                            FollowResponse(200, ""))
               ELSE /\ inflight' = [inflight EXCEPT ![r].pending = @ \ {field}]
                    /\ UNCHANGED last
    /\ UNCHANGED <<goals, notifications, foods, entries, posts, activity>>

\* the notification POST /:userId/follow creates for the followed user
NewFollowerNotification(target) ==
  [user |-> target, type |-> "new-follower", relatedType |-> "none", goal |-> "none"]

\* POST /:userId/follow (users.js): unfollows a followed user, follows and
\* notifies any other
toggleFollow(caller, target) ==
  IF target = caller
  THEN [res |-> FollowResponse(400, "Cannot follow yourself"), users |-> users,
        notifications |-> notifications]
  ELSE IF target \notin DOMAIN users
  THEN [res |-> FollowResponse(404, "User not found"), users |-> users,
        notifications |-> notifications]
  ELSE IF Includes(users[caller].following, target)
  THEN [res |-> FollowResponse(200, "User unfollowed successfully"),
        users |-> [users EXCEPT ![caller].following = Pull(@, target),
                                ![target].followers = Pull(@, caller)],
        notifications |-> notifications]
  ELSE LET note == NewFollowerNotification(target)
           followed == [users EXCEPT ![caller].following = AddToSet(@, target),
                                     ![target].followers = AddToSet(@, caller)]
       IN IF note.type \in NotificationTypeEnum
          THEN [res |-> FollowResponse(200, "User followed successfully"),
                users |-> followed, notifications |-> Append(notifications, note)]
          ELSE [res |-> FollowResponse(500, "Follow operation failed"),
                users |-> followed, notifications |-> notifications]

ToggleFollow ==
  \E caller \in FollowCallers, target \in TargetIds :
    LET out == toggleFollow(caller, target)
    IN /\ Len(out.notifications) <= MaxFollowNotes
       /\ users' = out.users
       /\ notifications' = out.notifications
       /\ last' = ServedFollow("toggle", caller, target, out.res)
       /\ UNCHANGED <<goals, foods, entries, inflight, posts, activity>>

NextFollow ==
  \/ BeginFollow
  \/ SaveFollow
  \/ ToggleFollow

SpecFollow == Init /\ [][NextFollow]_vars

\* no request is between its read and its response
Quiescent == \A r \in Slots : inflight[r] = Idle

\* the follow relation is symmetric, duplicate-free and irreflexive
FollowConsistent ==
  /\ \A a, b \in DOMAIN users :
       Includes(users[a].following, b) <=> Includes(users[b].followers, a)
  /\ \A a \in DOMAIN users, f \in {"following", "followers"} :
       \A i, j \in DOMAIN users[a][f] : users[a][f][i] = users[a][f][j] => i = j
  /\ \A a \in DOMAIN users : ~Includes(users[a].following, a)

\* C29: once every follow and unfollow request has been answered, B is in
\* A.following exactly when A is in B.followers, no user appears twice in a
\* list and no user follows themself, whatever the order of the saves of the
\* requests; a request to follow an already followed user is rejected and
\* changes nothing, and an answered unfollow leaves the pair in neither list.
C29_FollowRelationConsistent ==
  [][/\ Quiescent' => FollowConsistent'
     /\ \A c \in FollowCallers, t \in DOMAIN users :
          /\ (/\ last'.op \in {"follow", "toggle"}
              /\ last' # last
              /\ last'.caller = c
              /\ last'.target = t
              /\ Quiescent
              /\ Includes(users[c].following, t))
               => last'.res.code = 400 /\ users' = users
          /\ (/\ last'.op = "unfollow"
              /\ last'.res.code = 200
              /\ last'.caller = c
              /\ last'.target = t
              /\ Quiescent')
               => /\ ~Includes(users'[c].following, t)
                  /\ ~Includes(users'[t].followers, c)]_vars

-----------------------------------------------------------------------------
(* Logged routes: logActivity is a middleware of the route, placed after    *)
(* handleValidationErrors and before the handler.                           *)

\* activityLogSchema: the actions a record may carry
ActivityActionEnum ==
  {"workout-completed", "workout-created", "workout-updated", "workout-deleted",
   "nutrition-logged", "progress-recorded", "goal-created", "goal-achieved",
   "profile-updated", "login", "logout", "follow-user", "unfollow-user",
   "post-created", "post-liked", "post-replied"}

\* req.ip: a dotted IPv4 address, or the short form of an IPv6 address
RequestIps == {"203.0.113.7", "::1"}

\* activityLogSchema.ipAddress: match, dotted IPv4 or eight full groups
IpAddressMatches == {"203.0.113.7"}

\* common.js 17-35: the log after the middleware; a record the schema rejects
\* is not created, the error is logged to the console and next() is called
logActivity(caller, action, ip) ==
  IF action \in ActivityActionEnum /\ ip \in IpAddressMatches
  THEN Append(activity, [user |-> caller, action |-> action])
  ELSE activity

\* bodies of POST /goals: an active goal, a paused one, one the validators
\* reject and one the handler rejects
LoggedGoalBodies ==
  {PostBody(TRUE, TRUE, TRUE, "none", 1, 0, <<>>),
   PostBody(TRUE, TRUE, TRUE, "paused", 1, 0, <<>>),
   PostBody(FALSE, TRUE, TRUE, "none", 1, 0, <<>>),
   PostBody(TRUE, FALSE, TRUE, "none", 1, 0, <<>>)}

\* POST /goals: validators, logActivity('goal-created'), handler
LoggedGoal ==
  \E caller \in Users, id \in GoalIds \ DOMAIN goals, body \in LoggedGoalBodies,
     ip \in RequestIps :
    LET out == postGoal(caller, id, body)
        log == IF body.valid THEN logActivity(caller, "goal-created", ip)
               ELSE activity
    IN /\ Len(log) <= MaxActivity
       /\ activity' = log
       /\ goals' = out.goals
       /\ notifications' = out.notifications
       /\ last' = Served("create", caller, id, body.valid, 0, "none", 0, out)
       /\ UNCHANGED <<foods, entries, inflight, users, posts>>

\* POST /goals/:id/progress: validators, logActivity('goal-progress-updated'),
\* handler
LoggedProgress ==
  \E caller \in Users, id \in GoalIds, numeric \in BOOLEAN, ip \in RequestIps :
    \E value \in ProgressValuesFor(caller, id, numeric),
       date \in ProgressDatesFor(caller, id, numeric) :
      LET out == postProgress(caller, id, numeric, value, date)
          log == IF numeric THEN logActivity(caller, "goal-progress-updated", ip)
                 ELSE activity
      IN /\ Len(log) <= MaxActivity
         /\ activity' = log
         /\ goals' = out.goals
         /\ notifications' = out.notifications
         /\ last' = Served("progress", caller, id, numeric, value, date, 0, out)
         /\ UNCHANGED <<foods, entries, inflight, users, posts>>

\* POST /nutrition/entries: validators, logActivity('nutrition-logged'),
\* handler
LoggedEntries ==
  \E caller \in NutritionCallers, date \in ReqInstants, body \in NutritionBodies,
     ip \in RequestIps :
    LET out == postEntries(caller, date, body.meals, body.water)
        log == logActivity(caller, "nutrition-logged", ip)
    IN /\ Len(log) <= MaxActivity
       /\ Len(out.entries) <= MaxEntries
       /\ activity' = log
       /\ entries' = out.entries
       /\ last' = ServedEntry("entries", caller, date, body.meals, body.water, out)
       /\ UNCHANGED <<goals, notifications, foods, inflight, users, posts>>

NextLogged ==
  \/ LoggedGoal
  \/ LoggedProgress
  \/ PostFood
  \/ LoggedEntries

SpecLogged == Init /\ [][NextLogged]_vars

\* C30: a request of the progress update or of the nutrition log writes an
\* activity-log record only when its operation succeeds: a request rejected
\* by validation, or answered not-found, invalid-state or missing-food,
\* leaves the activity log as it was, and the operation stores what it stores
\* whether or not the record could be written.
C30_LoggedOnlyOnSuccess ==
  [][/\ (last'.op \in {"progress", "entries"} /\ activity' # activity)
          => last'.res.code \in {200, 201}
     /\ last'.op = "entries"
          => entries' = postEntries(last'.caller, last'.date, last'.meals,
                                    last'.water).entries]_vars

====
